---- MODULE Spec2Model ----
(***************************************************************************)
(* A model of futures-retry-policies' RetryPolicies adapter                *)
(* (src/src/retry_policies.rs) driven by the crate's retry loop.           *)
(*                                                                         *)
(* The adapter owns a u32 counter `amount` and a backoff policy.  Every    *)
(* call of RetryPolicies::should_retry adds one to the counter, asks the   *)
(* policy with the old counter value and, when the policy answers Retry,   *)
(* asks the result's own ShouldRetry implementation with the new value.    *)
(* The loop (crate::retry, which lives in the crate root and is modelled   *)
(* from section 4.3 of the specification) calls the operation, feeds the   *)
(* result to the adapter and sleeps for the returned duration.             *)
(***************************************************************************)
EXTENDS Integers, Sequences, FiniteSets, TLC

\* ------------------------------------------------------------------ bounds

\* Largest max_n_retries of a modelled backoff policy.
MaxK == 3

\* Largest timestamp (execute_after, Utc::now()) in abstract clock ticks.
MaxTime == 2

\* Number of calls of retry() made with the same adapter.
MaxRuns == 2

\* Distance from 0 and from u32::MAX of the counter values an adapter that
\* has already been used starts with (InitAged).
MaxAged == 2

\* Largest threshold of a RetryUntil value: beyond MaxK + 1 on purpose.
MaxM == MaxK + 2

\* Largest number of failing calls of the doc example's make_request.
MaxJ == MaxK + 1

\* Cap on the attempts of one run, which binds only for a policy that never
\* stops (a policy with max_n_retries <= MaxK stops by attempt MaxK + 1).
MaxAttempts == MaxK + 2

\* ------------------------------------------------------------- u32 counter

\* `amount: u32` and the u32 arguments are kept as two 16-bit limbs, the
\* value being hi * 2^16 + lo: the model checker's own integers are narrower
\* than 2^32.
Limb == 65536

\* The u32 of a number below 2^31.
U32(n) == [hi |-> n \div Limb, lo |-> n % Limb]

\* u32::MAX
U32Max == [hi |-> Limb - 1, lo |-> Limb - 1]

\* a < b, a <= b on u32
U32Lt(a, b) == a.hi < b.hi \/ (a.hi = b.hi /\ a.lo < b.lo)

U32Le(a, b) == a = b \/ U32Lt(a, b)

\* a + 1 modulo 2^32 (u32::wrapping_add(a, 1))
U32WrappingInc(a) ==
    IF a.lo + 1 < Limb THEN [hi |-> a.hi, lo |-> a.lo + 1]
    ELSE IF a.hi + 1 < Limb THEN [hi |-> a.hi + 1, lo |-> 0]
    ELSE [hi |-> 0, lo |-> 0]

Times == 0..MaxTime

\* ------------------------------------------------------- results, ShouldRetry

\* A value of a result type R.  `from` is the attempt (of the run) whose
\* operation produced the value; 0 marks the absence of a value.
Value(ty, var, e, m) == [ty |-> ty, var |-> var, e |-> e, m |-> m, from |-> 0]

NoResult == Value("-", "-", "-", 0)

ResultTypes == {"AlwaysRetry", "NeverRetry", "RetryUntil", "Result", "Option"}

Errors == {"Retry", "DoNotRetry"}

ValuesOf(ty) ==
    CASE ty = "AlwaysRetry" -> {Value("AlwaysRetry", "-", "-", 0)}
      [] ty = "NeverRetry"  -> {Value("NeverRetry", "-", "-", 0)}
      [] ty = "RetryUntil"  -> {Value("RetryUntil", "-", "-", m) : m \in 0..MaxM}
      [] ty = "Result"      -> {Value("Result", "Ok", "-", 0)}
                               \cup {Value("Result", "Err", e, 0) : e \in Errors}
                               \cup {Value("Result", "Err", "RetryUntil", m) :
                                        m \in 0..MaxM}
      [] ty = "Option"      -> {Value("Option", "Some", "-", 0),
                                Value("Option", "None", "-", 0)}

\* impl ShouldRetry for Error (doc example): matches!(self, Error::Retry).
ErrorShouldRetry(e, attempts) == e = "Retry"

\* impl ShouldRetry for RetryUntil: attempts < self.0.
RetryUntilShouldRetry(r, attempts) == U32Lt(attempts, U32(r.m))

\* e.should_retry(attempts) for the E of a Result<T, E>: the doc example's
\* Error, or RetryUntil(m) used as the error type.
ErrShouldRetry(r, attempts) ==
    IF r.e = "RetryUntil" THEN RetryUntilShouldRetry(r, attempts)
                          ELSE ErrorShouldRetry(r.e, attempts)

\* Mutant: every Err is retried, whatever the error says.
ResultShouldRetryAnyErr(r, attempts) == r.var # "Ok"

\* Mutant: the error is asked with the number of past attempts.
ResultShouldRetryPastAttempts(r, attempts) ==
    IF r.var = "Ok" THEN FALSE
    ELSE ErrShouldRetry(r, IF attempts = U32(0) THEN attempts
                           ELSE [attempts EXCEPT !.lo = @ - 1])

\* impl ShouldRetry for Result<T, E>.
ResultShouldRetry(r, attempts) ==
    IF r.var = "Ok" THEN FALSE ELSE ErrShouldRetry(r, attempts)

\* Mutant: a present value is retried, an absent one is not.
OptionShouldRetryIfSome(r, attempts) == r.var = "Some"

\* impl ShouldRetry for Option<T>: self.is_none().
OptionShouldRetry(r, attempts) == r.var = "None"

\* ShouldRetry::should_retry(&self, attempts), dispatched on the type.
ShouldRetry(r, attempts) ==
    CASE r.ty = "AlwaysRetry" -> TRUE
      [] r.ty = "NeverRetry"  -> FALSE
      [] r.ty = "RetryUntil"  -> RetryUntilShouldRetry(r, attempts)
      [] r.ty = "Result"      -> ResultShouldRetry(r, attempts)
      [] r.ty = "Option"      -> OptionShouldRetry(r, attempts)

\* ------------------------------------------------------------- operations

\* || async { value }: the closures of the tests.
ConstOps ==
    {[kind |-> "const", ty |-> v.ty, var |-> v.var, e |-> v.e, m |-> v.m, fails |-> 0] :
        v \in UNION {ValuesOf(ty) : ty \in ResultTypes}}

\* make_request of the doc example: Err(e) while COUNT < fails, Ok(()) after.
MakeRequestOps ==
    {[kind |-> "make_request", ty |-> "Result", var |-> "-", e |-> e, m |-> 0, fails |-> j] :
        j \in 0..MaxJ, e \in Errors}

\* Any other operation producing values of one type.
AnyOps ==
    {[kind |-> "any", ty |-> ty, var |-> "-", e |-> "-", m |-> 0, fails |-> 0] :
        ty \in {"RetryUntil", "Result", "Option"}}

Operations == ConstOps \cup MakeRequestOps \cup AnyOps

\* The values one call of the operation may produce, given the number of
\* calls made before it.
OpResults(o, count) ==
    CASE o.kind = "const" -> {Value(o.ty, o.var, o.e, o.m)}
      [] o.kind = "make_request" ->
            {IF count < o.fails THEN Value("Result", "Err", o.e, 0)
                                ELSE Value("Result", "Ok", "-", 0)}
      [] o.kind = "any" -> ValuesOf(o.ty)

\* ---------------------------------------------------------- backoff policy

\* retry_policies::RetryDecision.
Retry(execute_after) == [retry |-> TRUE, execute_after |-> execute_after]

Stop == [retry |-> FALSE, execute_after |-> 0]

\* "max_retries": answers Retry exactly while n_past_retries < k
\* (ExponentialBackoff built with build_with_max_retries(k)).
\* "arbitrary": any policy that answers Stop from k on.
\* "unlimited": any policy, one that never has to answer Stop included.
Policies ==
    {[kind |-> "max_retries", k |-> k] : k \in 0..MaxK}
    \cup {[kind |-> "arbitrary", k |-> k] : k \in 0..MaxK}
    \cup {[kind |-> "unlimited", k |-> 0]}

\* self.policy.should_retry(n_past_retries): the verdicts it may return.
PolicyShouldRetry(p, n_past_retries) ==
    CASE p.kind = "max_retries" ->
            IF U32Lt(n_past_retries, U32(p.k)) THEN {Retry(t) : t \in Times}
                                               ELSE {Stop}
      [] p.kind = "arbitrary" ->
            IF U32Lt(n_past_retries, U32(p.k))
            THEN {Stop} \cup {Retry(t) : t \in Times}
            ELSE {Stop}
      [] p.kind = "unlimited" -> {Stop} \cup {Retry(t) : t \in Times}

\* ------------------------------------------- RetryPolicies::should_retry

\* ControlFlow<R, Duration>.
Continue(dur) == [tag |-> "Continue", dur |-> dur, result |-> NoResult]

\* Mutant: Break carries a default value in place of the result it was given.
BreakDefault(result) == [tag |-> "Break", dur |-> 0, result |-> NoResult]

Break(result) == [tag |-> "Break", dur |-> 0, result |-> result]

NoDecision == [tag |-> "-", dur |-> 0, result |-> NoResult]

\* Mutant: the conversion accepts a negative delta.
ToStdUnchecked(delta) == [ok |-> TRUE, val |-> delta]

\* chrono's TimeDelta::to_std: Err(OutOfRangeError) for a negative delta.
ToStd(delta) ==
    IF delta < 0 THEN [ok |-> FALSE, val |-> 0] ELSE [ok |-> TRUE, val |-> delta]

\* Result::unwrap_or_default with Duration::default() = 0.
UnwrapOrDefault(r) == IF r.ok THEN r.val ELSE 0

\* Mutant: the subtraction the other way round.
WaitDurationSwapped(execute_after, now) ==
    UnwrapOrDefault(ToStd(now - execute_after))

\* (execute_after - Utc::now()).to_std().unwrap_or_default()
WaitDuration(execute_after, now) == UnwrapOrDefault(ToStd(execute_after - now))

\* self.amount + 1 overflows u32.
Overflows(amt) == amt = U32Max

\* Mutant: the counter is not incremented.
AttemptsNoIncrement(amt) == amt

\* let attempts = self.amount + 1, as a build without overflow checks
\* computes it (with overflow checks the overflowing sum panics instead).
Attempts(amt) == U32WrappingInc(amt)

\* Mutant: the policy is asked with the new counter value.
NPastRetriesAfterIncrement(amt) == U32WrappingInc(amt)

\* mem::replace(&mut self.amount, attempts) returns the old value.
NPastRetries(amt) == amt

\* Mutant: the match arm without its guard (the classifier is not asked).
MergeIgnoringClassifier(verdict, result, attempts, now) ==
    IF verdict.retry
    THEN Continue(WaitDuration(verdict.execute_after, now))
    ELSE Break(result)

\* Mutant: either verdict alone is enough to continue.
MergeEither(verdict, result, attempts, now) ==
    IF verdict.retry \/ ShouldRetry(result, attempts)
    THEN Continue(WaitDuration(verdict.execute_after, now))
    ELSE Break(result)

\* The match of should_retry: the guard result.should_retry(attempts) is
\* evaluated only in the Retry arm.
Merge(verdict, result, attempts, now) ==
    IF verdict.retry /\ ShouldRetry(result, attempts)
    THEN Continue(WaitDuration(verdict.execute_after, now))
    ELSE Break(result)

\* Mutant: the classifier is asked before the match, whatever the policy says.
CallsClassifierFirst(verdict) == <<"classifier", "policy">>

\* Mutant: the classifier is asked in every arm.
CallsBoth(verdict) == <<"policy", "classifier">>

\* The calls one evaluation makes, in order: the scrutinee
\* self.policy.should_retry(n_past_retries) first, then the guard
\* result.should_retry(attempts), which only the Retry pattern reaches.
Calls(verdict) ==
    IF verdict.retry THEN <<"policy", "classifier">> ELSE <<"policy">>

\* What one evaluation did: the arguments the collaborators received and
\* what they answered.  `asked` says whether the classifier was called.
Ev(past, attempts, verdict, now, result) ==
    [past |-> past, attempts |-> attempts, retry |-> verdict.retry,
     execute_after |-> verdict.execute_after, now |-> now,
     asked |-> verdict.retry,
     calls |-> Calls(verdict),
     retryable |-> verdict.retry /\ ShouldRetry(result, attempts),
     result |-> result]

NoEv == [past |-> U32(0), attempts |-> U32(0), retry |-> FALSE, execute_after |-> 0,
         now |-> 0, asked |-> FALSE, calls |-> <<>>, retryable |-> FALSE, result |-> NoResult]

\* Every way a call of should_retry that does not panic can end: the new
\* counter, the decision and the record of the call.
ShouldRetryOutcomes(amt, p, result) ==
    LET attempts == Attempts(amt)
        n_past_retries == NPastRetries(amt)
    IN {[amount |-> attempts,
         decision |-> Merge(v, result, attempts, now),
         ev |-> Ev(n_past_retries, attempts, v, now, result)] :
            v \in PolicyShouldRetry(p, n_past_retries), now \in Times}

\* ------------------------------------------------------------------ state

VARIABLES
    amount,          \* RetryPolicies.amount
    policy,          \* RetryPolicies.policy
    overflowChecks,  \* whether the build panics on integer overflow
    op,              \* the operation handed to retry()
    opCount,         \* make_request's static COUNT
    pc,              \* where the loop is
    run,             \* which call of retry() with this adapter
    prior,           \* attempts made by the earlier calls of retry()
    attempts,        \* operation attempts started in this run
    completed,       \* operation attempts completed in this run
    evaluated,       \* results evaluated in this run
    sleeps,          \* sleeps started in this run
    slept,           \* sleeps completed in this run
    result,          \* the result waiting to be evaluated
    decision,        \* the last decision of the adapter
    ev,              \* the record of the last evaluation
    sleepArg,        \* the duration handed to the last sleep
    returned         \* what retry() returned

adapter == <<amount, policy, overflowChecks>>

counters == <<attempts, completed, evaluated, sleeps, slept>>

vars == <<amount, policy, overflowChecks, op, opCount, pc, run, prior, attempts,
          completed, evaluated, sleeps, slept, result, decision, ev,
          sleepArg, returned>>

\* Operation attempts in flight.
InFlight == attempts - completed

\* The loop state at the start of a call of retry().
LoopStart ==
    /\ pc = "Start"
    /\ attempts = 0 /\ completed = 0 /\ evaluated = 0 /\ sleeps = 0 /\ slept = 0
    /\ result = NoResult /\ decision = NoDecision /\ ev = NoEv
    /\ sleepArg = 0 /\ returned = NoResult

Environment ==
    /\ policy \in Policies
    /\ overflowChecks \in BOOLEAN
    /\ op \in Operations
    /\ opCount = 0
    /\ run = 1
    /\ prior = 0

\* RetryPolicies::new(policy): amount 0.
Init == amount = U32(0) /\ Environment /\ LoopStart

\* An adapter that earlier runs have already used: its counter is anywhere
\* in the u32 range, of which the model takes both ends.
AgedAmounts ==
    {U32(n) : n \in 0..MaxAged}
    \cup {[hi |-> U32Max.hi, lo |-> U32Max.lo - d] : d \in 0..MaxAged}

InitAged == amount \in AgedAmounts /\ Environment /\ LoopStart

\* ---------------------------------------------------------------- actions

\* Start: call the operation factory and await the attempt.
InvokeOperation ==
    /\ pc = "Start"
    /\ attempts < MaxAttempts
    /\ pc' = "AwaitingOp"
    /\ attempts' = attempts + 1
    /\ UNCHANGED <<adapter, op, opCount, run, prior, completed, evaluated, sleeps,
                   slept, result, decision, ev, sleepArg, returned>>

\* The attempt completes with a result.
OperationCompletes ==
    /\ pc = "AwaitingOp"
    /\ \E v \in OpResults(op, opCount) :
          result' = [v EXCEPT !.from = attempts]
    /\ opCount' = IF op.kind = "make_request" THEN opCount + 1 ELSE opCount
    /\ completed' = completed + 1
    /\ pc' = "Evaluating"
    /\ UNCHANGED <<adapter, op, run, prior, attempts, evaluated, sleeps, slept,
                   decision, ev, sleepArg, returned>>

\* Evaluating: policy.should_retry(result).  Break ends the loop with the
\* carried result, Continue leads to the sleep.
Evaluate ==
    /\ pc = "Evaluating"
    /\ IF Overflows(amount) /\ overflowChecks
       THEN /\ pc' = "Panicked"
            /\ UNCHANGED <<amount, evaluated, result, decision, ev, returned>>
       ELSE \E o \in ShouldRetryOutcomes(amount, policy, result) :
              /\ amount' = o.amount
              /\ decision' = o.decision
              /\ ev' = o.ev
              /\ evaluated' = evaluated + 1
              /\ result' = NoResult
              /\ IF o.decision.tag = "Break"
                 THEN pc' = "Done" /\ returned' = o.decision.result
                 ELSE pc' = "Sleeping" /\ UNCHANGED returned
    /\ UNCHANGED <<policy, overflowChecks, op, opCount, run, prior, attempts,
                   completed, sleeps, slept, sleepArg>>

\* Sleeping: call sleep(duration) and await it.
InvokeSleep ==
    /\ pc = "Sleeping"
    /\ pc' = "AwaitingSleep"
    /\ sleeps' = sleeps + 1
    /\ sleepArg' = decision.dur
    /\ UNCHANGED <<adapter, op, opCount, run, prior, attempts, completed, evaluated,
                   slept, result, decision, ev, returned>>

\* The sleep completes: back to Start.
SleepCompletes ==
    /\ pc = "AwaitingSleep"
    /\ pc' = "Start"
    /\ slept' = slept + 1
    /\ UNCHANGED <<adapter, op, opCount, run, prior, attempts, completed, evaluated,
                   sleeps, result, decision, ev, sleepArg, returned>>

\* The caller drops the future at one of its two suspension points.
Cancel ==
    /\ pc \in {"AwaitingOp", "AwaitingSleep"}
    /\ pc' = "Cancelled"
    /\ UNCHANGED <<adapter, op, opCount, run, prior, counters, result, decision, ev,
                   sleepArg, returned>>

\* retry(&mut policy, ..) is called again with the same adapter.
Reuse ==
    /\ pc = "Done"
    /\ run < MaxRuns
    /\ run' = run + 1
    /\ prior' = prior + attempts
    /\ pc' = "Start"
    /\ attempts' = 0 /\ completed' = 0 /\ evaluated' = 0
    /\ sleeps' = 0 /\ slept' = 0
    /\ result' = NoResult /\ decision' = NoDecision /\ ev' = NoEv
    /\ sleepArg' = 0 /\ returned' = NoResult
    /\ UNCHANGED <<adapter, op, opCount>>

Next ==
    \/ InvokeOperation
    \/ OperationCompletes
    \/ Evaluate
    \/ InvokeSleep
    \/ SleepCompletes
    \/ Cancel
    \/ Reuse

Spec == Init /\ [][Next]_vars

SpecAged == InitAged /\ [][Next]_vars

\* The loop when nobody cancels it, every attempt and every sleep completes
\* and the loop is polled until it returns (Reuse is the caller's choice).
NextLive ==
    \/ InvokeOperation
    \/ OperationCompletes
    \/ Evaluate
    \/ InvokeSleep
    \/ SleepCompletes
    \/ Reuse

Fairness ==
    /\ WF_vars(InvokeOperation)
    /\ WF_vars(OperationCompletes)
    /\ WF_vars(Evaluate)
    /\ WF_vars(InvokeSleep)
    /\ WF_vars(SleepCompletes)

LiveSpec == Init /\ [][NextLive]_vars /\ Fairness

LiveSpecAged == InitAged /\ [][NextLive]_vars /\ Fairness

\* ----------------------------------------------------------------- claims

\* The attempt numbers a run of the model can hand to a classifier.
AttemptNumbers == 1..(MaxRuns * MaxAttempts)

\* The operation's results are retryable at every attempt number.
AlwaysRetryable(o) ==
    \A c \in 0..(MaxRuns * MaxAttempts) : \A v \in OpResults(o, c) :
        \A a \in AttemptNumbers : ShouldRetry(v, U32(a))

\* The operation's results are retryable at no attempt number.
NeverRetryable(o) ==
    \A c \in 0..(MaxRuns * MaxAttempts) : \A v \in OpResults(o, c) :
        \A a \in AttemptNumbers : ~ShouldRetry(v, U32(a))

\* The first call of retry() with the adapter has returned.
FirstRunDone == run = 1 /\ pc = "Done"

\* C1 (AND-merge law): whatever the counter, the policy's verdict and the
\* result, an evaluation that returns a decision returns Continue exactly when
\* the policy answered Retry for n_past_retries and the result is retryable
\* at `attempts`; in every other case it returns Break (Stop).
C1_AndMerge ==
    decision # NoDecision =>
        /\ decision.tag \in {"Continue", "Break"}
        /\ (decision.tag = "Continue")
              <=> (ev.retry /\ ShouldRetry(ev.result, ev.attempts))
        /\ ev.retry \in {r.retry : r \in PolicyShouldRetry(policy, ev.past)}

\* The policy allowed a retry, the result was not retryable: Break, and this
\* on an adapter whose counter is near u32::MAX.
C1_Witness ==
    /\ decision.tag = "Break"
    /\ ev.retry /\ ~ShouldRetry(ev.result, ev.attempts)
    /\ ev.past.hi = U32Max.hi

\* C2 (exhaustion): with a fresh adapter, a policy permitting exactly k
\* retries and an operation whose results are always retryable, the run that
\* has returned made exactly k + 1 attempts and left the counter at k + 1.
C2_Exhaustion ==
    (FirstRunDone /\ policy.kind = "max_retries" /\ AlwaysRetryable(op)) =>
        /\ attempts = policy.k + 1
        /\ completed = policy.k + 1
        /\ evaluated = policy.k + 1
        /\ amount = U32(policy.k + 1)

\* The test `retries`: k = 3, AlwaysRetry, 4 attempts, counter 4.
C2_Witness ==
    /\ FirstRunDone /\ policy = [kind |-> "max_retries", k |-> 3]
    /\ op.kind = "const" /\ op.ty = "AlwaysRetry"
    /\ attempts = 4 /\ amount = U32(4)

\* The operation of the test `eventually_succeed`: || async { RetryUntil(m) }.
IsRetryUntil(o) == o.kind = "const" /\ o.ty = "RetryUntil"

\* C3 as claimed (early success): for every m <= k + 1, RetryUntil(m) on a
\* fresh adapter with a policy permitting exactly k retries stops at attempt
\* m with the counter at m.
C3_EarlySuccessAnyM ==
    (FirstRunDone /\ policy.kind = "max_retries" /\ IsRetryUntil(op)
        /\ op.m <= policy.k + 1) =>
        (attempts = op.m /\ amount = U32(op.m))

\* C3 as amended: the same for 1 <= m <= k + 1; RetryUntil(0) is retryable at
\* no attempt number and stops at attempt 1 with the counter at 1.
C3_EarlySuccess ==
    (FirstRunDone /\ policy.kind = "max_retries" /\ IsRetryUntil(op)
        /\ op.m <= policy.k + 1) =>
        /\ op.m >= 1 => (attempts = op.m /\ amount = U32(op.m))
        /\ op.m = 0 => (attempts = 1 /\ amount = U32(1))

\* The test `eventually_succeed`: k = 3, RetryUntil(2), counter 2.
C3_Witness ==
    /\ FirstRunDone /\ policy = [kind |-> "max_retries", k |-> 3]
    /\ IsRetryUntil(op) /\ op.m = 2
    /\ attempts = 2 /\ amount = U32(2)

\* C4 (immediate stop): with results that are never retryable and any
\* policy, the first run on a fresh adapter starts one attempt, never sleeps,
\* and has made exactly 1 attempt with the counter at 1 when it returns.
C4_ImmediateStop ==
    (run = 1 /\ NeverRetryable(op)) =>
        /\ attempts <= 1
        /\ sleeps = 0
        /\ pc \notin {"Sleeping", "AwaitingSleep"}
        /\ pc = "Done" =>
              (attempts = 1 /\ evaluated = 1 /\ amount = U32(1))

\* The test `immediately_succeed`: k = 3, NeverRetry, counter 1, while the
\* policy had answered Retry.
C4_Witness ==
    /\ FirstRunDone /\ policy = [kind |-> "max_retries", k |-> 3]
    /\ op.kind = "const" /\ op.ty = "NeverRetry"
    /\ ev.retry /\ attempts = 1 /\ amount = U32(1) /\ sleeps = 0

\* C5 (doc example): make_request failing its first j calls with a retryable
\* error, under a policy permitting exactly k >= j retries and a fresh
\* adapter, returns Ok after exactly j + 1 attempts with the counter at j + 1;
\* failing first with a non-retryable error, it returns that error after
\* exactly 1 attempt, whatever the policy.
C5_RetryThenSucceed ==
    (FirstRunDone /\ op.kind = "make_request") =>
        /\ (op.e = "Retry" /\ policy.kind = "max_retries" /\ op.fails <= policy.k) =>
              /\ returned.var = "Ok" /\ returned.from = op.fails + 1
              /\ attempts = op.fails + 1
              /\ amount = U32(op.fails + 1)
        /\ (op.e = "DoNotRetry" /\ op.fails >= 1) =>
              /\ returned.var = "Err" /\ returned.e = "DoNotRetry"
              /\ returned.from = 1
              /\ attempts = 1
              /\ amount = U32(1)

\* The doc example itself: two failures, max_retries 3, Ok at attempt 3.
C5_Witness ==
    /\ FirstRunDone /\ policy = [kind |-> "max_retries", k |-> 3]
    /\ op.kind = "make_request" /\ op.e = "Retry" /\ op.fails = 2
    /\ returned.var = "Ok" /\ attempts = 3 /\ amount = U32(3)

\* b = a + 1 as numbers (no wrap-around).
U32IsSucc(a, b) ==
    \/ b.hi = a.hi /\ b.lo = a.lo + 1
    \/ b.hi = a.hi + 1 /\ a.lo = Limb - 1 /\ b.lo = 0

\* A step in which the adapter evaluates a result.
EvaluationStep == pc = "Evaluating" /\ pc' # "Evaluating"

\* C6 (counter monotonicity): every evaluation increases the counter by
\* exactly 1, and no step decreases it.
C6_CounterMonotonic ==
    [][/\ EvaluationStep => U32IsSucc(amount, amount')
       /\ ~U32Lt(amount', amount)]_vars

\* What holds of the counter: it is 0 after RetryPolicies::new, only an
\* evaluation changes it, and an evaluation at a counter below u32::MAX
\* increases it by exactly 1.
CounterStepBelowMax ==
    [][/\ (EvaluationStep /\ amount # U32Max) => U32IsSucc(amount, amount')
       /\ (~EvaluationStep) => amount' = amount]_vars

\* C7 (wait computation): a Continue carries max(execute_after - now, 0):
\* zero when execute_after <= now, the difference otherwise, never negative.
C7_Wait ==
    decision.tag = "Continue" =>
        /\ decision.dur >= 0
        /\ ev.execute_after <= ev.now => decision.dur = 0
        /\ ev.execute_after > ev.now => decision.dur = ev.execute_after - ev.now

\* A Continue whose execute_after lies in the past: the wait is zero.
C7_Witness ==
    /\ decision.tag = "Continue"
    /\ ev.execute_after < ev.now
    /\ decision.dur = 0

\* C8 (final result): a Break carries the very result that was passed to the
\* evaluation; what retry() returns is the result of the last attempt, the
\* one whose evaluation gave Break; and once a run is Done it makes no
\* further attempt, evaluation or sleep.
C8_FinalResult ==
    /\ [](decision.tag = "Break" =>
            (decision.result = ev.result /\ decision.result # NoResult))
    /\ [](pc = "Done" =>
            /\ decision.tag = "Break"
            /\ returned = decision.result
            /\ returned.from = attempts
            /\ attempts = completed /\ completed = evaluated)
    /\ [][(pc = "Done" /\ run' = run) =>
            UNCHANGED <<pc, amount, counters, returned>>]_vars

\* A run that returns the third attempt's result after two retries.
C8_Witness ==
    /\ pc = "Done" /\ attempts = 3 /\ sleeps = 2
    /\ returned.from = 3 /\ returned.var = "Ok"

\* The policy answers Stop from some k on.
FiniteBudget == policy.kind # "unlimited"

\* C9 (termination): under a policy that answers Stop from some k on, with
\* every attempt and every sleep completing, the loop reaches Done from
\* every starting value of the counter.
C9_Termination == FiniteBudget => <>(pc = "Done")

\* What holds of termination: the loop reaches Done unless the increment
\* of a counter at u32::MAX panics.
TerminationUnlessPanic == FiniteBudget => <>(pc \in {"Done", "Panicked"})

\* C10 (sequential ordering): at most one attempt is in flight; while
\* attempt n is in flight the attempts before it have completed, been
\* evaluated and been followed by a completed sleep; and on a fresh adapter
\* the n-th evaluation of the first run sets the counter to n.
C10_Sequential ==
    /\ InFlight \in {0, 1}
    /\ pc = "AwaitingOp" =>
          /\ InFlight = 1
          /\ completed = attempts - 1
          /\ evaluated = attempts - 1
          /\ sleeps = attempts - 1
          /\ slept = attempts - 1
    /\ pc \in {"Start", "Evaluating", "Sleeping", "AwaitingSleep", "Done"} =>
          InFlight = 0
    /\ (run = 1 /\ evaluated >= 1) =>
          /\ ev.attempts = U32(evaluated)
          /\ ev.result.from = evaluated
          /\ amount = U32(evaluated)

\* The third attempt of a first run is in flight after two evaluations.
C10_Witness ==
    /\ run = 1 /\ pc = "AwaitingOp" /\ attempts = 3
    /\ ev.attempts = U32(2) /\ amount = U32(2) /\ slept = 2

\* C11 (sleep protocol): every evaluation that gives Continue(d) is followed
\* by exactly one sleep, called with d = max(execute_after - now, 0), zero
\* included; the next attempt starts only after that sleep has completed;
\* there is no sleep before the first attempt nor after a Break, so a run
\* that is Done has slept once less than it has attempted.
C11_SleepProtocol ==
    /\ [](pc = "Sleeping" =>
            (decision.tag = "Continue" /\ sleeps = evaluated - 1))
    /\ [](pc = "AwaitingSleep" =>
            /\ decision.tag = "Continue"
            /\ sleeps = evaluated /\ slept = sleeps - 1
            /\ sleepArg = decision.dur
            /\ sleepArg = IF ev.execute_after > ev.now
                          THEN ev.execute_after - ev.now ELSE 0)
    /\ [](pc = "AwaitingOp" => (sleeps = attempts - 1 /\ slept = sleeps))
    /\ [](evaluated = 0 => sleeps = 0)
    /\ [](pc = "Done" =>
            (decision.tag = "Break" /\ sleeps = attempts - 1 /\ slept = sleeps))
    /\ [][sleeps' # sleeps =>
            \/ (pc = "Sleeping" /\ sleeps' = sleeps + 1)
            \/ run' # run]_vars

\* A second sleep of a run, called with a zero duration because
\* execute_after lies in the past.
C11_Witness ==
    /\ pc = "AwaitingSleep" /\ sleeps = 2 /\ attempts = 2
    /\ ev.execute_after < ev.now /\ sleepArg = 0

\* C12 (cancellation): a loop cancelled while it awaits an attempt or a
\* sleep takes no further step; the counter keeps its value, which on an
\* adapter that was fresh is the number of results evaluated before the
\* cancellation, the attempt in flight not counted.
C12_Cancellation ==
    /\ [](pc = "Cancelled" =>
            /\ amount = U32(prior + evaluated)
            /\ \/ InFlight = 1 /\ evaluated = attempts - 1 /\ slept = sleeps
               \/ InFlight = 0 /\ evaluated = attempts /\ slept = sleeps - 1)
    /\ [][pc = "Cancelled" =>
            (pc' = "Cancelled" /\ UNCHANGED <<amount, counters, run>>)]_vars

\* Cancelled while the third attempt is in flight: the counter is 2.
C12_Witness ==
    /\ pc = "Cancelled" /\ InFlight = 1 /\ attempts = 3
    /\ amount = U32(2) /\ run = 1

\* C13 (reuse accumulates): a second call of retry() with the same adapter
\* resets nothing: it starts with the counter the first call left, its first
\* evaluation asks the policy with that value as n_past_retries, and when it
\* returns the counter is the number of attempts of both calls together.
C13_ReuseAccumulates ==
    /\ [](run >= 2 =>
            /\ evaluated = 0 => amount = U32(prior)
            /\ evaluated >= 1 => ev.past = U32(prior + evaluated - 1)
            /\ pc = "Done" => amount = U32(prior + attempts))
    /\ [][run' # run =>
            (pc = "Done" /\ amount' = amount /\ policy' = policy)]_vars

\* Two attempts in the first call, two in the second: the second call's last
\* evaluation asks the policy with 3 and leaves the counter at 4.
C13_Witness ==
    /\ run = 2 /\ pc = "Done" /\ prior = 2 /\ attempts = 2
    /\ ev.past = U32(3) /\ amount = U32(4)

\* An evaluation has returned a decision.
Evaluated == decision # NoDecision

\* C14 (totality): whatever the counter (u32::MAX included), the policy's
\* verdict and the result, an evaluation returns Continue or Break and
\* raises no error.
C14_Total ==
    [][EvaluationStep =>
          (pc' \in {"Sleeping", "Done"} /\ decision'.tag \in {"Continue", "Break"})]_vars

\* What holds of totality: an evaluation at a counter below u32::MAX, and any
\* evaluation of a build without overflow checks, returns a decision.
TotalUnlessOverflow ==
    [][(EvaluationStep /\ (amount # U32Max \/ ~overflowChecks)) =>
          (pc' \in {"Sleeping", "Done"} /\ decision'.tag \in {"Continue", "Break"})]_vars

\* C15 (fallible-classifier law): at every attempt count the classifier of
\* a Result says not retryable for Ok, and for Err(e) what e's own
\* classifier says at that same attempt count.
C15_FallibleClassifier ==
    (Evaluated /\ ev.asked /\ ev.result.ty = "Result") =>
        /\ ev.result.var = "Ok" => decision.tag = "Break"
        /\ ev.result.var = "Err" =>
              ((decision.tag = "Continue")
                  <=> ErrShouldRetry(ev.result, ev.attempts))

\* Err(RetryUntil(2)) asked at attempt 2, with the policy willing to retry:
\* the error says no (2 < 2 is false) and the result is returned.
C15_Witness ==
    /\ Evaluated /\ ev.asked /\ ev.result.var = "Err"
    /\ ev.result.e = "RetryUntil" /\ ev.result.m = 2
    /\ ev.attempts = U32(2) /\ decision.tag = "Break"

\* C16 (optional-classifier law): the classifier of an Option says
\* retryable for None and not retryable for Some, at every attempt count.
C16_OptionalClassifier ==
    (Evaluated /\ ev.asked /\ ev.result.ty = "Option") =>
        ((decision.tag = "Continue") <=> (ev.result.var = "None"))

\* None is retried at a counter near u32::MAX as it is at attempt 1.
C16_Witness ==
    /\ Evaluated /\ ev.asked /\ ev.result.var = "None"
    /\ ev.attempts = U32Max /\ decision.tag = "Continue"

\* C17 as claimed (argument numbering): in every evaluation the policy gets
\* the counter before the increment and the classifier, when it is asked,
\* the counter after it, which is one more: attempts = n_past_retries + 1,
\* so the classifier's attempts starts at 1.
C17_ArgumentNumbering ==
    [][(EvaluationStep /\ pc' # "Panicked") =>
          /\ ev'.past = amount
          /\ ev'.asked =>
                /\ ev'.attempts = amount'
                /\ U32IsSucc(ev'.past, ev'.attempts)
                /\ U32Le(U32(1), ev'.attempts)]_vars

\* What holds of the numbering: the policy always gets the old counter and
\* the classifier the new one; below u32::MAX the new one is the old one
\* plus 1; and the i-th evaluation of a fresh adapter hands i - 1 to the
\* policy and i to the classifier.
NumberingBelowMax ==
    /\ [][(EvaluationStep /\ pc' # "Panicked") =>
            /\ ev'.past = amount
            /\ ev'.attempts = amount'
            /\ amount # U32Max =>
                  (U32IsSucc(ev'.past, ev'.attempts) /\ U32Le(U32(1), ev'.attempts))]_vars
    /\ []((amount = U32(prior + evaluated) /\ evaluated >= 1) =>
            /\ ev.past = U32(prior + evaluated - 1)
            /\ ev.attempts = U32(prior + evaluated))

\* C18 (query order): an evaluation asks the policy exactly once and first;
\* it asks the classifier exactly once, after the policy, when the policy
\* answered Retry, and not at all when the policy answered Stop.
C18_QueryOrder ==
    Evaluated =>
        /\ ev.calls # << >> /\ ev.calls[1] = "policy"
        /\ Cardinality({i \in DOMAIN ev.calls : ev.calls[i] = "policy"}) = 1
        /\ Cardinality({i \in DOMAIN ev.calls : ev.calls[i] = "classifier"})
              = IF ev.retry THEN 1 ELSE 0
        /\ (decision.tag = "Continue") => ev.calls = <<"policy", "classifier">>

\* The policy answered Stop for a result that would have been retryable:
\* the classifier was not asked.
C18_Witness ==
    /\ Evaluated /\ ~ev.retry /\ ev.calls = <<"policy">>
    /\ ShouldRetry(ev.result, ev.attempts)
    /\ decision.tag = "Break"

\* C19 (attempt upper bound): the first run of a fresh adapter under a
\* policy permitting exactly k retries makes at least 1 and at most k + 1
\* attempts whatever the results are, and the counter never exceeds k + 1
\* during that run.
C19_AttemptBound ==
    (run = 1 /\ policy.kind = "max_retries") =>
        /\ attempts <= policy.k + 1
        /\ U32Le(amount, U32(policy.k + 1))
        /\ pc = "Done" => attempts >= 1

\* An operation with arbitrary results that used the whole budget of a
\* policy permitting 2 retries.
C19_Witness ==
    /\ run = 1 /\ pc = "Done" /\ policy = [kind |-> "max_retries", k |-> 2]
    /\ op.kind = "any" /\ attempts = 3 /\ amount = U32(3)

\* The evaluation of a later run that finds the budget of a policy
\* permitting exactly k retries used up: the counter is k + 1 or more.
ExhaustedEvaluation ==
    /\ EvaluationStep
    /\ run >= 2
    /\ policy.kind = "max_retries"
    /\ U32Le(U32(policy.k + 1), amount)

\* C20 as claimed (reuse of an exhausted adapter): once a run has ended with
\* the counter at k + 1 or more, every later run makes exactly 1 attempt,
\* does not sleep and returns that attempt's result, retryable or not, and
\* increases the counter by 1.
C20_ExhaustedReuse ==
    [][ExhaustedEvaluation =>
          /\ attempts = 1 /\ sleeps = 0
          /\ pc' = "Done"
          /\ returned' = result
          /\ U32IsSucc(amount, amount')]_vars

\* What holds of an exhausted adapter: the same, as long as the counter is
\* below u32::MAX.
ExhaustedReuseBelowMax ==
    [][(ExhaustedEvaluation /\ amount # U32Max) =>
          /\ attempts = 1 /\ sleeps = 0
          /\ pc' = "Done"
          /\ returned' = result
          /\ U32IsSucc(amount, amount')]_vars

====
